---- MODULE Spec2Model ----
(***************************************************************************)
(* Model of exdir.rs (src/src/lib.rs): the open-mode logic of File::new    *)
(* over a small filesystem, the envelope (exdir.yaml) written by           *)
(* _create_object_directory and read by is_nonraw_object_directory         *)
(* (Spec, SpecSeq), the same call taken step by step by two callers        *)
(* (SpecConc), Object::new (SpecObj) and create_group / create_dataset     *)
(* (SpecTree).                                                             *)
(*                                                                         *)
(* Strings that the code takes apart (file names, extensions) are          *)
(* sequences of their dot-separated parts: "test.exdir" is                 *)
(* <<"test", "exdir">>, ".exdir" is <<"", "exdir">>, "exdir" is            *)
(* <<"exdir">>.  A path is a sequence of such components.                  *)
(* Option<T> is a sequence of length 0 (None) or 1 (Some(x)).              *)
(***************************************************************************)
EXTENDS Integers, Sequences, FiniteSets, TLC

VARIABLES disk, last, log, obj, attempts, procs

vars == <<disk, last, log, obj, attempts, procs>>

\* ---------------------------------------------------------------- bounds
\* Number of calls recorded by the scenario specification SpecSeq.
MaxCalls == 3

\* Number of create_group / create_dataset calls made in SpecTree.
MaxAttempts == 3

\* ------------------------------------------------------------- constants
\* const META_FILENAME: &str = "exdir.yaml"
META_FILENAME == <<"exdir", "yaml">>

\* let target_ext = ".exdir"
target_ext == <<"", "exdir">>

\* version: 1 in Metadata::new
CurrentVersion == 1

\* version: u8
U8Max == 255

\* const RECOGNIZED_MODES: [&str; 7]
RECOGNIZED_MODES == <<"a", "r", "r+", "w", "w-", "x", "a">>

\* enum ObjectType
ObjectType == {"Dataset", "Group", "File"}

\* ------------------------------------------------------------ Option<T>
None == <<>>

Some(x) == <<x>>

\* Option::unwrap_or
UnwrapOr(opt, default) == IF opt = None THEN default ELSE opt[1]

\* ---------------------------------------------------------------- paths
\* Path::join with a relative component
Join(path, component) == Append(path, component)

\* Path::extension: the part of the last component after its final dot;
\* None without a file name, without a dot, or for a dot-file such as
\* ".exdir".
Extension(path) ==
    IF path = <<>> THEN None
    ELSE LET file_name == path[Len(path)]
         IN  IF Len(file_name) <= 1 THEN None
             ELSE IF Len(file_name) = 2 /\ file_name[1] = "" THEN None
             ELSE Some(<<file_name[Len(file_name)]>>)

\* starts_with on whole components
IsPrefix(p, q) == Len(p) <= Len(q) /\ SubSeq(q, 1, Len(p)) = p

\* the non-empty prefixes of a path
Ancestors(path) == {SubSeq(path, 1, n) : n \in 1..Len(path)}

\* ----------------------------------------------------------- filesystem
\* A disk is the set of existing directories and the existing regular
\* files with their contents.
EmptyDisk == [dirs |-> {}, files |-> <<>>]

\* Path::exists
Exists(d, path) == path \in d.dirs \/ path \in DOMAIN d.files

\* std::fs::remove_dir_all, successful
RemoveDirAll(d, path) ==
    [dirs  |-> {p \in d.dirs : ~IsPrefix(path, p)},
     files |-> [p \in {q \in DOMAIN d.files : ~IsPrefix(path, q)} |-> d.files[p]]]

\* std::fs::remove_dir_all failing part-way: the entries below the
\* directory are gone, the directory itself is still there.
RemoveDirContents(d, path) ==
    [dirs  |-> {p \in d.dirs : p = path \/ ~IsPrefix(path, p)},
     files |-> [p \in {q \in DOMAIN d.files : ~IsPrefix(path, q)} |-> d.files[p]]]

\* std::fs::create_dir_all, successful
CreateDirAll(d, path) == [d EXCEPT !.dirs = @ \cup Ancestors(path)]

\* File::create followed by a complete write of the content
WriteFile(d, path, content) ==
    [d EXCEPT !.files = [p \in (DOMAIN @) \cup {path} |->
                            IF p = path THEN content ELSE @[p]]]

\* ------------------------------------------------------------- envelope
\* Metadata::new
MetadataNew(objtype) == [exdir |-> [objtype |-> objtype, version |-> CurrentVersion]]

\* #[serde(rename_all = "lowercase")]
Lowercase(objtype) ==
    CASE objtype = "Dataset" -> "dataset"
      [] objtype = "Group"   -> "group"
      [] objtype = "File"    -> "file"

\* serde_yaml::to_writer of a Metadata: the document
\*   exdir: {type: <lowercase variant>, version: <u8>}
ToYaml(metadata) ==
    [type |-> Lowercase(metadata.exdir.objtype), version |-> metadata.exdir.version]

\* The content of a file that was created but into which nothing was
\* written.
EmptyDocument == [type |-> "", version |-> 0]

\* serde_yaml::from_reader into a Metadata: Some(metadata), or None when
\* the document does not deserialize.
FromYaml(doc) ==
    IF /\ \E t \in ObjectType : Lowercase(t) = doc.type
       /\ doc.version \in 0..U8Max
    THEN Some([exdir |-> [objtype |-> CHOOSE t \in ObjectType : Lowercase(t) = doc.type,
                          version |-> doc.version]])
    ELSE None

\* ------------------------------------------------------------- outcomes
\* How a call ends: tag "Ok" (Ok(File)), "Err" (Err(io::Error) of the
\* given kind, returned to the caller) or "Panic" (panic!() or unwrap() on
\* an error; no value is returned).  line is the source line of the
\* panic or of the `?` that returned, 0 for Ok.  failed is the filesystem
\* call that the environment made fail, "none" when every call succeeded.
\* Every operation below yields the set of its possible outcomes: one in
\* which each filesystem call it reaches succeeds, and one for each such
\* call failing.
Ok(d) == [disk |-> d, tag |-> "Ok", kind |-> "none", line |-> 0, failed |-> "none"]

Panic(d, line, failed) ==
    [disk |-> d, tag |-> "Panic", kind |-> "none", line |-> line, failed |-> failed]

Err(d, kind, line, failed) ==
    [disk |-> d, tag |-> "Err", kind |-> kind, line |-> line, failed |-> failed]

\* ------------------------------------------------------------ operations
\* fn _create_object_directory(directory, metadata)
CreateObjectDirectory(d, directory, metadata) ==
    IF Exists(d, directory) THEN {Panic(d, 102, "none")}
    ELSE LET d1 == CreateDirAll(d, directory)
             meta_filename == Join(directory, META_FILENAME)
         IN  {Panic(d, 104, "create_dir_all"),
              Panic(d1, 107, "File::create"),
              Panic(WriteFile(d1, meta_filename, EmptyDocument), 110, "to_writer"),
              Ok(WriteFile(d1, meta_filename, ToYaml(metadata)))}

\* Variant of is_nonraw_object_directory that takes a directory without
\* an envelope file for an object directory.
IsNonrawObjectDirectory_MissingIsValid(d, directory) ==
    LET meta_filename == Join(directory, META_FILENAME)
    IN  IF ~Exists(d, meta_filename) THEN "true"
        ELSE IF meta_filename \notin DOMAIN d.files THEN "panic"
        ELSE IF FromYaml(d.files[meta_filename]) = None THEN "panic"
        ELSE "true"

\* fn is_nonraw_object_directory(directory) -> bool: "true", "false", or
\* "panic" when the envelope does not deserialize (unwrap at line 121).
IsNonrawObjectDirectory(d, directory) ==
    LET meta_filename == Join(directory, META_FILENAME)
    IN  IF ~Exists(d, meta_filename) THEN "false"
        ELSE IF meta_filename \notin DOMAIN d.files THEN "panic"
        ELSE IF FromYaml(d.files[meta_filename]) = None THEN "panic"
        ELSE "true"

\* RECOGNIZED_MODES.contains(&mode)
ModeRecognized(mode) == \E i \in 1..Len(RECOGNIZED_MODES) : RECOGNIZED_MODES[i] = mode

\* File::new, lines 142-153: the directory of the store for a given path
StoreDirectory(path) ==
    LET ext == Extension(path)
    IN  IF ext = None THEN Join(path, target_ext)
        ELSE IF ext[1] /= target_ext THEN Join(path, ext[1])
        ELSE path

\* Variant of the creation that writes Metadata::default(), a Dataset
\* envelope.
CreateIfRequested_DefaultMetadata(d, directory, should_create_directory) ==
    IF should_create_directory
    THEN CreateObjectDirectory(d, directory, MetadataNew("Dataset"))
    ELSE {Ok(d)}

\* File::new, lines 207-212
CreateIfRequested(d, directory, should_create_directory) ==
    IF should_create_directory
    THEN CreateObjectDirectory(d, directory, MetadataNew("File"))
    ELSE {Ok(d)}

\* Variant of the "w" arm that removes without looking at allow_remove.
ModeW_Unconfirmed(d, directory, already_exists, allow_remove) ==
    IF already_exists
    THEN {Err(d, "PermissionDenied", 186, "remove_dir_all"),
          Err(RemoveDirContents(d, directory), "PermissionDenied", 186,
              "remove_dir_all")}
         \cup CreateIfRequested(RemoveDirAll(d, directory), directory, TRUE)
    ELSE CreateIfRequested(d, directory, TRUE)

\* File::new, lines 183-192: the "w" arm of the match.  remove_dir_all
\* fails before it removed anything or after it emptied the directory.
ModeW(d, directory, already_exists, allow_remove) ==
    IF already_exists
    THEN IF allow_remove
         THEN {Err(d, "PermissionDenied", 186, "remove_dir_all"),
               Err(RemoveDirContents(d, directory), "PermissionDenied", 186,
                   "remove_dir_all")}
              \cup CreateIfRequested(RemoveDirAll(d, directory), directory, TRUE)
         ELSE {Panic(d, 188, "none")}
    ELSE CreateIfRequested(d, directory, TRUE)

\* Variant of the match in which "x" opens an existing store as "a" does.
ModeMatch_XAppends(d, directory, mode, already_exists, allow_remove) ==
    CASE mode = "r" ->
           IF ~already_exists THEN {Panic(d, 175, "none")}
           ELSE CreateIfRequested(d, directory, FALSE)
      [] mode = "r+" ->
           IF ~already_exists THEN {Panic(d, 180, "none")}
           ELSE CreateIfRequested(d, directory, FALSE)
      [] mode = "w" -> ModeW(d, directory, already_exists, allow_remove)
      [] mode = "w-" ->
           IF already_exists THEN {Panic(d, 195, "none")}
           ELSE CreateIfRequested(d, directory, TRUE)
      [] mode \in {"x", "a"} ->
           CreateIfRequested(d, directory, ~already_exists)
      [] OTHER -> {Panic(d, 204, "none")}

\* Variant of the match in which "a" always asks for the creation.
ModeMatch_AAlwaysCreates(d, directory, mode, already_exists, allow_remove) ==
    CASE mode = "r" ->
           IF ~already_exists THEN {Panic(d, 175, "none")}
           ELSE CreateIfRequested(d, directory, FALSE)
      [] mode = "r+" ->
           IF ~already_exists THEN {Panic(d, 180, "none")}
           ELSE CreateIfRequested(d, directory, FALSE)
      [] mode = "w" -> ModeW(d, directory, already_exists, allow_remove)
      [] mode \in {"w-", "x"} ->
           IF already_exists THEN {Panic(d, 195, "none")}
           ELSE CreateIfRequested(d, directory, TRUE)
      [] mode = "a" ->
           CreateIfRequested(d, directory, TRUE)
      [] OTHER -> {Panic(d, 204, "none")}

\* Variant of the match in which "r+" creates a store that is absent.
ModeMatch_RPlusCreates(d, directory, mode, already_exists, allow_remove) ==
    CASE mode = "r" ->
           IF ~already_exists THEN {Panic(d, 175, "none")}
           ELSE CreateIfRequested(d, directory, FALSE)
      [] mode = "r+" ->
           CreateIfRequested(d, directory, ~already_exists)
      [] mode = "w" -> ModeW(d, directory, already_exists, allow_remove)
      [] mode \in {"w-", "x"} ->
           IF already_exists THEN {Panic(d, 195, "none")}
           ELSE CreateIfRequested(d, directory, TRUE)
      [] mode = "a" ->
           CreateIfRequested(d, directory, ~already_exists)
      [] OTHER -> {Panic(d, 204, "none")}

\* File::new, lines 172-212: the match on the mode and the creation
ModeMatch(d, directory, mode, already_exists, allow_remove) ==
    CASE mode = "r" ->
           IF ~already_exists THEN {Panic(d, 175, "none")}
           ELSE CreateIfRequested(d, directory, FALSE)
      [] mode = "r+" ->
           IF ~already_exists THEN {Panic(d, 180, "none")}
           ELSE CreateIfRequested(d, directory, FALSE)
      [] mode = "w" -> ModeW(d, directory, already_exists, allow_remove)
      [] mode \in {"w-", "x"} ->
           IF already_exists THEN {Panic(d, 195, "none")}
           ELSE CreateIfRequested(d, directory, TRUE)
      [] mode = "a" ->
           CreateIfRequested(d, directory, ~already_exists)
      [] OTHER -> {Panic(d, 204, "none")}

\* Variant of File::new that falls back to the default mode "a" for a
\* token it does not recognize.
FileNew_UnknownModeDefaults(d, path, mode, allow_remove) ==
    LET allow == UnwrapOr(allow_remove, FALSE)
        m == IF ModeRecognized(UnwrapOr(mode, "a")) THEN UnwrapOr(mode, "a") ELSE "a"
        directory == StoreDirectory(path)
        already_exists == Exists(d, directory)
        nonraw == IF already_exists
                  THEN IsNonrawObjectDirectory(d, directory)
                  ELSE "true"
    IN  IF nonraw = "panic" THEN {Panic(d, 121, "none")}
        ELSE IF nonraw = "false" THEN {Panic(d, 166, "none")}
        ELSE ModeMatch(d, directory, m, already_exists, allow)

\* Variant of File::new without the check of lines 160-168 on an existing
\* directory.
FileNew_NoValidation(d, path, mode, allow_remove) ==
    LET allow == UnwrapOr(allow_remove, FALSE)
        m == UnwrapOr(mode, "a")
    IN  IF ~ModeRecognized(m) THEN {Panic(d, 139, "none")}
        ELSE ModeMatch(d, StoreDirectory(path), m, Exists(d, StoreDirectory(path)), allow)

\* fn File::new(directory: &str, mode: Option<&str>, allow_remove: Option<bool>)
FileNew(d, path, mode, allow_remove) ==
    LET allow == UnwrapOr(allow_remove, FALSE)
        m == UnwrapOr(mode, "a")
    IN  IF ~ModeRecognized(m) THEN {Panic(d, 139, "none")}
        ELSE LET directory == StoreDirectory(path)
                 already_exists == Exists(d, directory)
                 nonraw == IF already_exists
                           THEN IsNonrawObjectDirectory(d, directory)
                           ELSE "true"
             IN  IF nonraw = "panic" THEN {Panic(d, 121, "none")}
                 ELSE IF nonraw = "false" THEN {Panic(d, 166, "none")}
                 ELSE ModeMatch(d, directory, m, already_exists, allow)

\* fn File::default(directory): File::new(directory, None, Some(false)).unwrap()
FileDefault(d, path) ==
    {IF r.tag = "Err" THEN Panic(r.disk, 216, r.failed) ELSE r :
        r \in FileNew(d, path, None, Some(FALSE))}

\* ------------------------------------------------------- hierarchy nodes
\* impl HasLeaves for File and for Group: both methods return the unit
\* struct of their return type, whatever the receiver and the name, and
\* touch nothing.
CreateDataset(self, name) == "Dataset"

CreateGroup(self, name) == "Group"

\* ------------------------------------------------------ Object identity
\* Object::new works on the text of its paths.  Such a text is the
\* sequence of its pieces, a piece being the separator "/" or a name
\* between separators: "" is <<>>, "." is <<".">>, "./" is <<".", "/">>,
\* "/x" is <<"/", "x">>.

\* Variant of the join that puts a separator in front of every joined
\* text.
PathPush_AlwaysSeparator(path, text) ==
    IF text /= <<>> /\ text[1] = "/" THEN text
    ELSE path \o <<"/">> \o text

\* Path::join / PathBuf::push: an absolute text replaces the path;
\* otherwise a separator is added unless the path is empty or ends with
\* one, and the text is appended.
PathPush(path, text) ==
    IF text /= <<>> /\ text[1] = "/" THEN text
    ELSE IF path /= <<>> /\ path[Len(path)] /= "/" THEN path \o <<"/">> \o text
    ELSE path \o text

\* Path::components, on which the equality of PathBuf rests: whether the
\* path has a root, and its names without the "." names, except a "." that
\* starts a path without root.
IsName(piece) == piece /= "/"

IsNotCurDir(piece) == piece /= "."

Components(path) ==
    LET has_root == path /= <<>> /\ path[1] = "/"
        names == SelectSeq(path, IsName)
    IN  [has_root |-> has_root,
         names |-> IF names /= <<>> /\ names[1] = "." /\ ~has_root
                   THEN <<".">> \o SelectSeq(Tail(names), IsNotCurDir)
                   ELSE SelectSeq(names, IsNotCurDir)]

\* PathBuf == PathBuf
PathEq(p, q) == Components(p) = Components(q)

\* Path::to_str: Some(text), the pieces here all being valid UTF-8
ToStr(path) == Some(path)

\* fn Object::new(root_directory, parent_path, object_name, file)
ObjectNew(root_directory, parent_path, object_name, file) ==
    LET relative_path == PathPush(parent_path, object_name)
        text == ToStr(relative_path)[1]
        relative_name == IF text = <<".">> THEN <<>> ELSE text
    IN  [root_directory |-> root_directory,
         object_name |-> object_name,
         parent_path |-> parent_path,
         relative_path |-> relative_path,
         relative_name |-> relative_name,
         name |-> PathPush(<<"/">>, relative_name),
         file |-> file]

\* --------------------------------------------------------------- inputs
\* The paths handed to File::new: "test.exdir" (the tests' testfilep) and
\* "data" (no extension).
Paths == {<< <<"test", "exdir">> >>, << <<"data">> >>}

\* The mode argument: omitted, each token of the match, and a token that
\* is not recognized.
Modes == {None, Some("r"), Some("r+"), Some("w"), Some("w-"), Some("x"),
          Some("a"), Some("rw")}

\* The allow_remove argument
AllowRemoves == {None, Some(FALSE), Some(TRUE)}

\* What may lie at a store directory before the first call: envelope
\* documents that deserialize (any type, any u8 version) or not.
Documents == {ToYaml(MetadataNew("File")), ToYaml(MetadataNew("Group")),
              ToYaml(MetadataNew("Dataset")),
              [type |-> "file", version |-> 2],
              EmptyDocument}

\* a child object of a store: a group directory with its envelope
ChildName == <<"group1">>

WithChild(d, directory) ==
    WriteFile(CreateDirAll(d, Join(directory, ChildName)),
              Join(Join(directory, ChildName), META_FILENAME),
              ToYaml(MetadataNew("Group")))

\* The disks the program may find: nothing, or at the store directory of
\* one path a directory with or without an envelope and with or without a
\* child, or only the directories above the store directory.
Populated(directory) ==
    LET bare == CreateDirAll(EmptyDisk, directory)
        with_envelope == {WriteFile(bare, Join(directory, META_FILENAME), doc) :
                            doc \in Documents}
        parents == {[EmptyDisk EXCEPT !.dirs = Ancestors(directory) \ {directory}]}
    IN  {bare} \cup with_envelope \cup parents
        \cup {WithChild(d, directory) : d \in {bare} \cup with_envelope}

InitialDisks == {EmptyDisk} \cup UNION {Populated(StoreDirectory(p)) : p \in Paths}

\* The arguments of Object::new: root directories, parent paths and
\* object names as texts, and the optional file handle.
Roots == {<<"/", "tmp", "/", "exdir_dir">>, <<"store">>}

ParentPaths == {<<>>, <<".">>, <<"a">>, <<"a", "/", "b">>, <<"a", "/">>}

ObjectNames == {<<>>, <<"x">>, <<"test_object">>, <<".">>, <<"x", "/", "y">>, <<"/", "x">>}

FileHandles == {None, Some(3)}

\* ---------------------------------------------------------- state machine
\* obj: the arguments of the last Object::new call and the Object it
\* returned.
NoObject ==
    [called |-> FALSE, root_directory |-> <<>>, parent_path |-> <<>>,
     object_name |-> <<>>, file |-> None, object |-> ObjectNew(<<>>, <<>>, <<>>, None)]

\* procs: the callers of SpecConc, none elsewhere.
NoProcs == <<>>


\* disk: the filesystem.  last: the most recent call: its arguments, the
\* disk it found (before), its outcome, and whether it reopens what the
\* call just before it opened (same operation, path and mode, and that
\* call returned Ok).  log: the calls made so far, recorded by SpecSeq
\* only.
NoCall == [op |-> "none", path |-> <<>>, mode |-> None, allow_remove |-> None,
           before |-> EmptyDisk, reopened |-> FALSE,
           tag |-> "none", kind |-> "none", line |-> 0, failed |-> "none"]

Call(op, path, mode, allow_remove, r) ==
    [op |-> op, path |-> path, mode |-> mode, allow_remove |-> allow_remove,
     before |-> disk,
     reopened |-> (last.op = op /\ last.path = path /\ last.mode = mode
                   /\ last.tag = "Ok"),
     tag |-> r.tag, kind |-> r.kind, line |-> r.line, failed |-> r.failed]

\* obj, attempts and procs belong to the specifications SpecObj, SpecTree
\* and SpecConc below and stay at their initial values elsewhere.
Init ==
    /\ disk \in InitialDisks
    /\ last = NoCall
    /\ log = <<>>
    /\ obj = NoObject
    /\ attempts = <<>>
    /\ procs = NoProcs

\* one call of File::new
FileNewCall(path, mode, allow_remove) ==
    \E r \in FileNew(disk, path, mode, allow_remove) :
        /\ disk' = r.disk
        /\ last' = Call("File::new", path, mode, allow_remove, r)

\* one call of File::default
FileDefaultCall(path) ==
    \E r \in FileDefault(disk, path) :
        /\ disk' = r.disk
        /\ last' = Call("File::default", path, None, Some(FALSE), r)

DoFileNew ==
    \E path \in Paths, mode \in Modes, allow_remove \in AllowRemoves :
        FileNewCall(path, mode, allow_remove)

DoFileDefault ==
    \E path \in Paths : FileDefaultCall(path)

Next ==
    \/ DoFileNew /\ UNCHANGED <<log, obj, attempts, procs>>
    \/ DoFileDefault /\ UNCHANGED <<log, obj, attempts, procs>>

Spec == Init /\ [][Next]_vars

\* The scenario specification: at most MaxCalls calls from an empty disk,
\* each recorded in log.
Record == log' = Append(log, [last' EXCEPT !.before = EmptyDisk, !.allow_remove = None]
                             @@ [existed |-> Exists(disk, StoreDirectory(last'.path)),
                                 exists |-> Exists(disk', StoreDirectory(last'.path)),
                                 unchanged |-> (disk' = disk)])

InitSeq ==
    /\ disk = EmptyDisk
    /\ last = NoCall
    /\ log = <<>>
    /\ obj = NoObject
    /\ attempts = <<>>
    /\ procs = NoProcs

NextSeq ==
    /\ Len(log) < MaxCalls
    /\ UNCHANGED <<obj, attempts, procs>>
    /\ \/ DoFileNew /\ Record
       \/ DoFileDefault /\ Record

SpecSeq == InitSeq /\ [][NextSeq]_vars

\* The specification of Object::new: calls with every combination of the
\* arguments.
ObjectNewCall(root_directory, parent_path, object_name, file) ==
    /\ obj' = [called |-> TRUE, root_directory |-> root_directory,
               parent_path |-> parent_path, object_name |-> object_name,
               file |-> file,
               object |-> ObjectNew(root_directory, parent_path, object_name, file)]
    /\ UNCHANGED <<disk, last, log, attempts, procs>>

InitObj ==
    /\ disk = EmptyDisk
    /\ last = NoCall
    /\ log = <<>>
    /\ obj = NoObject
    /\ attempts = <<>>
    /\ procs = NoProcs

NextObj ==
    \E root_directory \in Roots, parent_path \in ParentPaths,
       object_name \in ObjectNames, file \in FileHandles :
        ObjectNewCall(root_directory, parent_path, object_name, file)

SpecObj == InitObj /\ [][NextObj]_vars

\* The specification of the hierarchy nodes: at most MaxAttempts calls of
\* create_group and create_dataset, on the File (receiver 0) or on the
\* Group that an earlier call returned (receiver i: the value returned by
\* call i), with the names of the test open_object.  attempts records each
\* call with what it returned.
ChildNames == {"test", "test2"}

Receivers == {0} \cup {i \in 1..Len(attempts) : attempts[i].returned = "Group"}

ReceiverType(i) == IF i = 0 THEN "File" ELSE attempts[i].returned

CreateGroupCall(receiver, name) ==
    /\ attempts' = Append(attempts,
                          [receiver |-> receiver, method |-> "create_group", name |-> name,
                           returned |-> CreateGroup(ReceiverType(receiver), name)])
    /\ UNCHANGED <<disk, last, log, obj, procs>>

CreateDatasetCall(receiver, name) ==
    /\ attempts' = Append(attempts,
                          [receiver |-> receiver, method |-> "create_dataset", name |-> name,
                           returned |-> CreateDataset(ReceiverType(receiver), name)])
    /\ UNCHANGED <<disk, last, log, obj, procs>>

InitTree ==
    /\ disk = EmptyDisk
    /\ last = NoCall
    /\ log = <<>>
    /\ obj = NoObject
    /\ attempts = <<>>
    /\ procs = NoProcs

NextTree ==
    \/ /\ Len(attempts) < MaxAttempts
       /\ \E receiver \in Receivers, name \in ChildNames :
             CreateGroupCall(receiver, name)
    \/ /\ Len(attempts) < MaxAttempts
       /\ \E receiver \in Receivers, name \in ChildNames :
             CreateDatasetCall(receiver, name)

SpecTree == InitTree /\ [][NextTree]_vars

\* The specification of concurrent callers: two callers make one File::new
\* call each on the shared disk, and every step is one access of the call
\* to the filesystem, in the order of the code.  The filesystem calls
\* fail here only when the other caller's steps make them fail.  A caller
\* is at pc "idle", then at the line it is about to execute ("exists":
\* 159, "validate": 161, "match": 172, "create_check": 100, "mkdir": 104,
\* "create": 107, "write": 106-110), then "open" (Ok(File) returned and the
\* File value alive), "closed" (the File value dropped) or "failed".
Procs == {1, 2}

Idle == [pc |-> "idle", path |-> <<>>, mode |-> "", allow_remove |-> FALSE,
         directory |-> <<>>, already_exists |-> FALSE, tag |-> "none", line |-> 0]

\* the stores the callers may find: none, or a valid store with or without
\* a child
ConcurrentDisks ==
    {EmptyDisk}
    \cup UNION {LET store == WriteFile(CreateDirAll(EmptyDisk, StoreDirectory(path)),
                                       Join(StoreDirectory(path), META_FILENAME),
                                       ToYaml(MetadataNew("File")))
                IN  {store, WithChild(store, StoreDirectory(path))} : path \in Paths}

Goto(p, pc) == procs' = [procs EXCEPT ![p].pc = pc]

Fail(p, tag, line) ==
    procs' = [procs EXCEPT ![p].pc = "failed", ![p].tag = tag, ![p].line = line]

Return(p) == procs' = [procs EXCEPT ![p].pc = "open", ![p].tag = "Ok"]

\* File::new, lines 131-153
Begin(p, path, mode, allow_remove) ==
    /\ procs[p].pc = "idle"
    /\ IF ~ModeRecognized(UnwrapOr(mode, "a"))
       THEN procs' = [procs EXCEPT ![p] =
                        [Idle EXCEPT !.pc = "failed", !.path = path, !.tag = "Panic",
                                     !.line = 139]]
       ELSE procs' = [procs EXCEPT ![p] =
                        [Idle EXCEPT !.pc = "exists", !.path = path,
                                     !.mode = UnwrapOr(mode, "a"),
                                     !.allow_remove = UnwrapOr(allow_remove, FALSE),
                                     !.directory = StoreDirectory(path)]]
    /\ UNCHANGED disk

\* File::new, line 159
CheckExists(p) ==
    /\ procs[p].pc = "exists"
    /\ procs' = [procs EXCEPT ![p].already_exists = Exists(disk, procs[p].directory),
                              ![p].pc = IF Exists(disk, procs[p].directory)
                                        THEN "validate" ELSE "match"]
    /\ UNCHANGED disk

\* File::new, lines 160-168
Validate(p) ==
    /\ procs[p].pc = "validate"
    /\ LET nonraw == IsNonrawObjectDirectory(disk, procs[p].directory)
       IN  IF nonraw = "panic" THEN Fail(p, "Panic", 121)
           ELSE IF nonraw = "false" THEN Fail(p, "Panic", 166)
           ELSE Goto(p, "match")
    /\ UNCHANGED disk

\* File::new, lines 172-207: the match; remove_dir_all fails with an Err
\* when the directory is no longer there
Match(p) ==
    /\ procs[p].pc = "match"
    /\ LET me == procs[p]
       IN  CASE me.mode = "r" ->
                  /\ IF ~me.already_exists THEN Fail(p, "Panic", 175) ELSE Return(p)
                  /\ UNCHANGED disk
             [] me.mode = "r+" ->
                  /\ IF ~me.already_exists THEN Fail(p, "Panic", 180) ELSE Return(p)
                  /\ UNCHANGED disk
             [] me.mode = "w" ->
                  IF me.already_exists
                  THEN IF me.allow_remove
                       THEN IF Exists(disk, me.directory)
                            THEN /\ disk' = RemoveDirAll(disk, me.directory)
                                 /\ Goto(p, "create_check")
                            ELSE /\ Fail(p, "Err", 186)
                                 /\ UNCHANGED disk
                       ELSE /\ Fail(p, "Panic", 188)
                            /\ UNCHANGED disk
                  ELSE /\ Goto(p, "create_check")
                       /\ UNCHANGED disk
             [] me.mode \in {"w-", "x"} ->
                  /\ IF me.already_exists THEN Fail(p, "Panic", 195)
                     ELSE Goto(p, "create_check")
                  /\ UNCHANGED disk
             [] me.mode = "a" ->
                  /\ IF ~me.already_exists THEN Goto(p, "create_check") ELSE Return(p)
                  /\ UNCHANGED disk

\* _create_object_directory, lines 100-103
CreateCheck(p) ==
    /\ procs[p].pc = "create_check"
    /\ IF Exists(disk, procs[p].directory) THEN Fail(p, "Panic", 102)
       ELSE Goto(p, "mkdir")
    /\ UNCHANGED disk

\* _create_object_directory, line 104: create_dir_all succeeds also when
\* the directory is there already
Mkdir(p) ==
    /\ procs[p].pc = "mkdir"
    /\ disk' = CreateDirAll(disk, procs[p].directory)
    /\ Goto(p, "create")

\* _create_object_directory, line 107: File::create makes the envelope
\* file or empties the one that is there; it fails when the directory is
\* gone
CreateFile(p) ==
    /\ procs[p].pc = "create"
    /\ IF procs[p].directory \in disk.dirs
       THEN /\ disk' = WriteFile(disk, Join(procs[p].directory, META_FILENAME),
                                 EmptyDocument)
            /\ Goto(p, "write")
       ELSE /\ Fail(p, "Panic", 107)
            /\ UNCHANGED disk

\* _create_object_directory, lines 106-110, and the return of line 212:
\* the write goes to the open file, which is on the disk unless it was
\* removed in between
Write(p) ==
    /\ procs[p].pc = "write"
    /\ disk' = IF Join(procs[p].directory, META_FILENAME) \in DOMAIN disk.files
               THEN WriteFile(disk, Join(procs[p].directory, META_FILENAME),
                              ToYaml(MetadataNew("File")))
               ELSE disk
    /\ Return(p)

\* the File value goes out of scope
Close(p) ==
    /\ procs[p].pc = "open"
    /\ Goto(p, "closed")
    /\ UNCHANGED disk

InitConc ==
    /\ disk \in ConcurrentDisks
    /\ last = NoCall
    /\ log = <<>>
    /\ obj = NoObject
    /\ attempts = <<>>
    /\ procs = [p \in Procs |-> Idle]

Others == <<last, log, obj, attempts>>

NextConc ==
    \/ \E p \in Procs, path \in Paths, mode \in Modes, allow_remove \in AllowRemoves :
          Begin(p, path, mode, allow_remove) /\ UNCHANGED Others
    \/ \E p \in Procs : CheckExists(p) /\ UNCHANGED Others
    \/ \E p \in Procs : Validate(p) /\ UNCHANGED Others
    \/ \E p \in Procs : Match(p) /\ UNCHANGED Others
    \/ \E p \in Procs : CreateCheck(p) /\ UNCHANGED Others
    \/ \E p \in Procs : Mkdir(p) /\ UNCHANGED Others
    \/ \E p \in Procs : CreateFile(p) /\ UNCHANGED Others
    \/ \E p \in Procs : Write(p) /\ UNCHANGED Others
    \/ \E p \in Procs : Close(p) /\ UNCHANGED Others

SpecConc == InitConc /\ [][NextConc]_vars

\* ------------------------------------------------------------ vocabulary
\* the store directory of the last call
Dir == StoreDirectory(last.path)

\* the envelope file of a directory
Envelope(directory) == Join(directory, META_FILENAME)

\* the last call is File::new with the given mode token
NewWith(token) == last.op = "File::new" /\ last.mode = Some(token)

\* the last call opens with mode "a": the token given, or no mode given
OpensA ==
    \/ last.op = "File::new" /\ last.mode \in {None, Some("a")}
    \/ last.op = "File::default"

\* the envelope of the directory deserializes and has the given type
EnvelopeHasType(d, directory, objtype) ==
    /\ Envelope(directory) \in DOMAIN d.files
    /\ FromYaml(d.files[Envelope(directory)]) /= None
    /\ FromYaml(d.files[Envelope(directory)])[1].exdir.objtype = objtype

\* a valid store: a directory whose envelope deserializes and says File
ValidStore(d, directory) ==
    directory \in d.dirs /\ EnvelopeHasType(d, directory, "File")

\* the paths at or below a directory
Below(d, directory) ==
    {p \in d.dirs \cup DOMAIN d.files : IsPrefix(directory, p)}

\* a fresh store: the directory, holding its envelope {File, 1} and
\* nothing else
FreshStore(d, directory) ==
    /\ directory \in d.dirs
    /\ Below(d, directory) = {directory, Envelope(directory)}
    /\ Envelope(directory) \in DOMAIN d.files
    /\ FromYaml(d.files[Envelope(directory)]) = Some(MetadataNew("File"))

\* d2 keeps everything of d1 that is not at or below the directory
SameOutside(d1, d2, directory) ==
    /\ {p \in d1.dirs : ~IsPrefix(directory, p)} \subseteq d2.dirs
    /\ \A p \in DOMAIN d1.files :
          ~IsPrefix(directory, p) => p \in DOMAIN d2.files /\ d2.files[p] = d1.files[p]

\* something that was on d1 is gone from d2 or has other content there
Lost(d1, d2) ==
    \/ \E p \in d1.dirs : p \notin d2.dirs
    \/ \E p \in DOMAIN d1.files : p \notin DOMAIN d2.files \/ d2.files[p] /= d1.files[p]

\* --------------------------------------------------------------- claims
\* C1 (as stated): from a path where nothing exists, File::new with "r"
\* fails with the error NotFound and creates nothing, File::new with "w-"
\* on the same path right after succeeds and creates the store, and
\* File::new with "r" on it right after that succeeds.  Checked on the
\* log of SpecSeq, for calls whose filesystem calls all succeed.
C1_Step2(i) ==
    (/\ i + 1 <= Len(log)
     /\ log[i + 1].op = "File::new" /\ log[i + 1].mode = Some("w-")
     /\ log[i + 1].path = log[i].path /\ log[i + 1].failed = "none")
    => /\ log[i + 1].tag = "Ok"
       /\ log[i + 1].exists
       /\ (/\ i + 2 <= Len(log)
           /\ log[i + 2].op = "File::new" /\ log[i + 2].mode = Some("r")
           /\ log[i + 2].path = log[i].path)
          => log[i + 2].tag = "Ok"

C1_OpenSequence ==
    \A i \in 1..Len(log) :
        (log[i].op = "File::new" /\ log[i].mode = Some("r") /\ ~log[i].existed)
        => /\ log[i].tag = "Err" /\ log[i].kind = "NotFound"
           /\ log[i].unchanged
           /\ C1_Step2(i)

\* The same sequence with step 1 ending the way the code ends it, in the
\* panic of line 175: this holds of the code.
C1_OpenSequencePanics ==
    \A i \in 1..Len(log) :
        (log[i].op = "File::new" /\ log[i].mode = Some("r") /\ ~log[i].existed)
        => /\ log[i].tag = "Panic" /\ log[i].line = 175
           /\ log[i].unchanged
           /\ C1_Step2(i)

C1_SequenceRun ==
    /\ Len(log) = 3
    /\ log[1].mode = Some("r") /\ ~log[1].existed /\ log[1].tag = "Panic"
    /\ log[2].mode = Some("w-") /\ log[2].path = log[1].path /\ log[2].tag = "Ok"
    /\ log[3].mode = Some("r") /\ log[3].path = log[1].path /\ log[3].tag = "Ok"

\* C2 (as stated): File::new with "w" on an existing valid store, with
\* allow_remove false or omitted, fails with the error AlreadyExists and
\* leaves the disk exactly as it was.
C2_UnconfirmedW ==
    (/\ NewWith("w")
     /\ UnwrapOr(last.allow_remove, FALSE) = FALSE
     /\ ValidStore(last.before, Dir))
    => /\ last.tag = "Err" /\ last.kind = "AlreadyExists"
       /\ disk = last.before

\* The same call ending the way the code ends it, in the panic of line
\* 188: this holds of the code.
C2_UnconfirmedWPanics ==
    (/\ NewWith("w")
     /\ UnwrapOr(last.allow_remove, FALSE) = FALSE
     /\ ValidStore(last.before, Dir))
    => /\ last.tag = "Panic" /\ last.line = 188
       /\ disk = last.before

\* C3: File::new with "w" and allow_remove = Some(true) on an existing
\* valid store, when its filesystem calls succeed, returns Ok and leaves at
\* the same directory a store that holds nothing but an envelope reading
\* {File, 1}; nothing outside the store directory is touched.
C3_ConfirmedW ==
    (/\ NewWith("w")
     /\ last.allow_remove = Some(TRUE)
     /\ ValidStore(last.before, Dir)
     /\ last.failed = "none")
    => /\ last.tag = "Ok"
       /\ FreshStore(disk, Dir)
       /\ SameOutside(last.before, disk, Dir)

C3_Recreated ==
    /\ NewWith("w") /\ last.allow_remove = Some(TRUE)
    /\ ValidStore(last.before, Dir)
    /\ Join(Dir, ChildName) \in last.before.dirs
    /\ last.before.files[Envelope(Dir)].version = 2
    /\ last.tag = "Ok"
    /\ Join(Dir, ChildName) \notin disk.dirs

\* C4: whenever a call makes a directory or a file that was on the disk
\* disappear or change its content, the call is File::new with the mode
\* token "w" and allow_remove given as Some(true).
C4_OnlyConfirmedWRemoves ==
    (last.op /= "none" /\ Lost(last.before, disk))
    => NewWith("w") /\ last.allow_remove = Some(TRUE)

C4_Removed ==
    /\ NewWith("w") /\ last.allow_remove = Some(TRUE)
    /\ Join(Dir, ChildName) \in last.before.dirs
    /\ Lost(last.before, disk)

\* C5: File::new with "w-" or "x", when its filesystem calls succeed,
\* returns Ok exactly when nothing exists at the store directory; when it
\* returns Ok the store directory holds a fresh store {File, 1}; when
\* something exists there it fails and leaves the disk as it was; and "x"
\* has the outcomes of "w-" on every disk.
C5_ExclusiveCreate ==
    (NewWith("w-") \/ NewWith("x"))
    => /\ last.failed = "none" => (last.tag = "Ok" <=> ~Exists(last.before, Dir))
       /\ last.tag = "Ok" => FreshStore(disk, Dir) /\ ~Lost(last.before, disk)
       /\ Exists(last.before, Dir) => last.tag /= "Ok" /\ disk = last.before
       /\ FileNew(last.before, last.path, Some("w-"), last.allow_remove)
            = FileNew(last.before, last.path, Some("x"), last.allow_remove)

C5_CreatedByX ==
    /\ NewWith("x") /\ ~Exists(last.before, Dir)
    /\ last.tag = "Ok" /\ FreshStore(disk, Dir)

\* C6: opening with mode "a" (the token, no mode given, or File::default)
\* changes the disk only if nothing existed at the store directory, and
\* then, when its filesystem calls succeed, returns Ok and leaves a fresh
\* store {File, 1}; on an existing valid store it returns Ok and leaves the
\* disk as it was; so an "a" open that follows a successful "a" open of
\* the same path returns Ok and leaves the disk as the first one left it.
C6_AppendOpen ==
    OpensA
    => /\ disk /= last.before => ~Exists(last.before, Dir)
       /\ (~Exists(last.before, Dir) /\ last.failed = "none")
          => last.tag = "Ok" /\ FreshStore(disk, Dir) /\ ~Lost(last.before, disk)
       /\ ValidStore(last.before, Dir) => last.tag = "Ok" /\ disk = last.before
       /\ last.reopened => last.tag = "Ok" /\ disk = last.before

C6_OpenedTwice ==
    /\ OpensA /\ last.mode = Some("a") /\ last.reopened
    /\ FreshStore(last.before, Dir)
    /\ last.tag = "Ok" /\ disk = last.before

\* C7: File::new with "r" or "r+" leaves the disk exactly as it found it,
\* whether it returns Ok or fails, whatever was at the store directory.
C7_ReadModesChangeNothing ==
    (NewWith("r") \/ NewWith("r+")) => disk = last.before

C7_ReadOfAbsent ==
    /\ NewWith("r+") /\ ~Exists(last.before, Dir)
    /\ last.tag = "Panic" /\ disk = last.before

\* C8: File::new with a mode token other than "r", "r+", "w", "w-", "x",
\* "a" does not return Ok and leaves the disk exactly as it found it,
\* whatever the disk and the allow_remove flag.
C8_UnknownModeRejected ==
    (/\ last.op = "File::new" /\ last.mode /= None
     /\ last.mode[1] \notin {"r", "r+", "w", "w-", "x", "a"})
    => last.tag /= "Ok" /\ disk = last.before

C8_RejectedOnStore ==
    /\ last.op = "File::new" /\ last.mode = Some("rw")
    /\ last.allow_remove = Some(TRUE)
    /\ ValidStore(last.before, Dir)
    /\ last.tag = "Panic" /\ disk = last.before

\* C9: when the store directory exists as a directory without an envelope
\* file, a call with any recognized mode (or none) and any allow_remove
\* fails in the check that reports "not a valid exdir file" (the panic of
\* line 166) and leaves the disk exactly as it found it: nothing is
\* created in the directory and nothing is removed from it.
C9_BareDirectoryRejected ==
    (/\ last.op /= "none"
     /\ ModeRecognized(UnwrapOr(last.mode, "a"))
     /\ Dir \in last.before.dirs
     /\ ~Exists(last.before, Envelope(Dir)))
    => /\ last.tag = "Panic" /\ last.line = 166
       /\ disk = last.before

C9_BareDirectoryKept ==
    /\ NewWith("w") /\ last.allow_remove = Some(TRUE)
    /\ Dir \in last.before.dirs
    /\ ~Exists(last.before, Envelope(Dir))
    /\ Join(Dir, ChildName) \in disk.dirs
    /\ last.tag = "Panic" /\ disk = last.before

\* C10 (as stated): when the store directory exists with an envelope that
\* deserializes with type Group or Dataset, a call with any recognized
\* mode is rejected in the validity check (the panics of lines 121 and
\* 166): only an envelope of type File makes a valid store.
C10_OnlyFileEnvelopeAccepted ==
    (/\ last.op /= "none"
     /\ ModeRecognized(UnwrapOr(last.mode, "a"))
     /\ Dir \in last.before.dirs
     /\ \/ EnvelopeHasType(last.before, Dir, "Group")
        \/ EnvelopeHasType(last.before, Dir, "Dataset"))
    => last.tag = "Panic" /\ last.line \in {121, 166}

\* C16 (as stated): when the creation of a store fails in one of its
\* filesystem calls (create_dir_all, File::create or the write of the
\* envelope), the disk is left exactly as it was before the call.
C16_FailedCreateLeavesNothing ==
    (/\ last.op /= "none"
     /\ last.failed \in {"create_dir_all", "File::create", "to_writer"})
    => disk = last.before

\* C17 (as stated): File::new with "w" and allow_remove = Some(true) on an
\* existing valid store ends, whichever of its filesystem calls fails, with
\* the original store fully intact or with a fresh store {File, 1} at the
\* store directory.
C17_ConfirmedWAllOrNothing ==
    (/\ NewWith("w")
     /\ last.allow_remove = Some(TRUE)
     /\ ValidStore(last.before, Dir))
    => \/ disk = last.before
       \/ FreshStore(disk, Dir) /\ SameOutside(last.before, disk, Dir)

C19_ExdirPathIsStoreDirectory ==
    last.op /= "none"
    => /\ Extension(last.path) = Some(<<"exdir">>) => Dir = last.path
       /\ ~(IsPrefix(last.path, Dir) /\ Dir /= last.path)

\* C14: Object::new with the empty parent path and an object name that is
\* one non-empty name x returns an Object whose relative_path equals the
\* path x and whose name equals the path /x, whose root_directory,
\* parent_path and object_name are the arguments, and whose file is None
\* when no file was given.
C14_ObjectUnderEmptyParent ==
    (/\ obj.called
     /\ obj.parent_path = <<>>
     /\ Len(obj.object_name) = 1 /\ obj.object_name[1] /= "/")
    => /\ PathEq(obj.object.relative_path, obj.object_name)
       /\ PathEq(obj.object.name, <<"/">> \o obj.object_name)
       /\ obj.object.root_directory = obj.root_directory
       /\ obj.object.parent_path = obj.parent_path
       /\ obj.object.object_name = obj.object_name
       /\ obj.file = None => obj.object.file = None

C14_TestObject ==
    /\ obj.called
    /\ obj.parent_path = <<>> /\ obj.object_name = <<"test_object">>
    /\ obj.file = None
    /\ obj.object.relative_path = <<"test_object">>
    /\ obj.object.name = <<"/", "test_object">>

\* C15 (as stated): Object::new with the parent path "." and the empty
\* object name returns an Object whose relative_name is the empty string
\* and whose name equals the path /.
C15_RootObject ==
    (/\ obj.called
     /\ obj.parent_path = <<".">>
     /\ obj.object_name = <<>>)
    => /\ obj.object.relative_name = <<>>
       /\ PathEq(obj.object.name, <<"/">>)

\* C13 (as stated): when two creations with the same name are attempted
\* one after the other on the same parent, with create_group and
\* create_dataset in any combination, the second one fails with
\* AlreadyExists and returns no node.
C13_SecondCreationFails ==
    \A i, j \in 1..Len(attempts) :
        (/\ i < j
         /\ attempts[i].receiver = attempts[j].receiver
         /\ attempts[i].name = attempts[j].name)
        => attempts[j].returned = "AlreadyExists"

\* ------------------------------------------------- claims on SpecConc
\* the mode tokens that give a handle for reading and writing
ReadWriteTokens == {"r+", "w", "w-", "x", "a"}

\* the caller is inside _create_object_directory
Creating(p) == procs[p].pc \in {"create_check", "mkdir", "create", "write"}

\* C11 (as stated): while a caller is creating a store, the store
\* directory is never on the disk without an envelope that deserializes.
C11_DirectoryNeverWithoutEnvelope ==
    \A p \in DOMAIN procs :
        (Creating(p) /\ procs[p].directory \in disk.dirs)
        => /\ Envelope(procs[p].directory) \in DOMAIN disk.files
           /\ FromYaml(disk.files[Envelope(procs[p].directory)]) /= None

\* C12 (as stated): no two callers hold at the same time a File obtained
\* with "r+", "w", "w-", "x" or "a" on the same store; the second such
\* open fails.
C12_OneReadWriteHandle ==
    \A p, q \in DOMAIN procs :
        (/\ p /= q
         /\ procs[p].pc = "open" /\ procs[q].pc = "open"
         /\ procs[p].directory = procs[q].directory)
        => ~(procs[p].mode \in ReadWriteTokens /\ procs[q].mode \in ReadWriteTokens)

\* C20 (as stated): of two callers that open the same path with "w-" or
\* "x", at most one gets Ok.
C20_OneExclusiveCreate ==
    \A p, q \in DOMAIN procs :
        (/\ p /= q
         /\ procs[p].mode \in {"w-", "x"} /\ procs[q].mode \in {"w-", "x"}
         /\ procs[p].directory = procs[q].directory)
        => ~(procs[p].tag = "Ok" /\ procs[q].tag = "Ok")

====
